---- MODULE Spec2Model ----
(***************************************************************************)
(* Model of the WebAssembly chess engine in src/wasm/src/lib.rs            *)
(* (struct ChessEngine and its methods).                                   *)
(*                                                                         *)
(* Representation choices:                                                 *)
(*   - a Bitboard (u64) is the set of its set bit positions, a subset of   *)
(*     0..63; `|=` is set union, count_ones is Cardinality;                *)
(*   - a &str is a sequence of characters, each character a one-character  *)
(*     string ("GRAVE" stands for the grave accent and "E_ACUTE" for       *)
(*     U+00E9, which the string syntax cannot hold); CodePoint gives the   *)
(*     character's Unicode scalar value;                                   *)
(*   - Option<T> is the empty sequence (None) or a one-element sequence    *)
(*     (Some(v));                                                          *)
(*   - the f32 score only ever holds small integers, which f32 represents  *)
(*     exactly, so it is an Integer (-0.0 and 0.0 compare equal in Rust);  *)
(*   - arithmetic overflow is not undefined in Rust but depends on the     *)
(*     build: with overflow checks (debug profile) it panics, without      *)
(*     (release profile) it wraps.  The build is the variable              *)
(*     overflow_checks, chosen in Init and never changed.                  *)
(***************************************************************************)
EXTENDS Integers, Sequences, FiniteSets, TLC

\* ------------------------------------------------------------------------
\* Bounds of the model (not program constants)
\* ------------------------------------------------------------------------
MaxNodes == 2
MaxDepth == 1
MaxTimeLimit == 1

\* ------------------------------------------------------------------------
\* Characters and strings
\* ------------------------------------------------------------------------

\* Printable ASCII, in code point order starting at 32 (space).
AsciiTable ==
  << " ", "!", "\"", "#", "$", "%", "&", "'", "(", ")", "*", "+", ",", "-", ".", "/",
     "0", "1", "2", "3", "4", "5", "6", "7", "8", "9", ":", ";", "<", "=", ">", "?",
     "@", "A", "B", "C", "D", "E", "F", "G", "H", "I", "J", "K", "L", "M", "N", "O",
     "P", "Q", "R", "S", "T", "U", "V", "W", "X", "Y", "Z", "[", "\\", "]", "^", "_",
     "GRAVE", "a", "b", "c", "d", "e", "f", "g", "h", "i", "j", "k", "l", "m", "n", "o",
     "p", "q", "r", "s", "t", "u", "v", "w", "x", "y", "z", "{", "|", "}", "~" >>

\* The characters of the model: printable ASCII, tab, and U+00E9.
Alphabet == { AsciiTable[i] : i \in 1..Len(AsciiTable) } \cup { "\t", "E_ACUTE" }

\* Unicode scalar value of each character.
CodePointTable ==
  [ ch \in Alphabet |->
      IF ch = "\t" THEN 9
      ELSE IF ch = "E_ACUTE" THEN 233
      ELSE 31 + CHOOSE i \in 1..Len(AsciiTable) : AsciiTable[i] = ch ]

CodePoint(ch) == CodePointTable[ch]

\* `ch as u8`: the scalar value truncated to 8 bits.
AsU8(ch) == CodePoint(ch) % 256

\* Number of UTF-8 bytes of a character.
Utf8Len(ch) ==
  IF CodePoint(ch) < 128 THEN 1
  ELSE IF CodePoint(ch) < 2048 THEN 2
  ELSE IF CodePoint(ch) < 65536 THEN 3 ELSE 4

\* str::len(): the length in bytes.
RECURSIVE ByteLen(_)
ByteLen(s) == IF s = <<>> THEN 0 ELSE Utf8Len(Head(s)) + ByteLen(Tail(s))

\* char::is_ascii_digit
is_ascii_digit(ch) == CodePoint(ch) \in 48..57

\* char::to_digit(10) of an ASCII digit
to_digit(ch) == CodePoint(ch) - 48

\* char::is_whitespace (White_Space property) on the characters above
is_whitespace(ch) == CodePoint(ch) \in (9..13) \cup {32, 133, 160}

\* str::split(sep): the pieces between separators, empty pieces included;
\* `cur` is the piece being accumulated.
RECURSIVE SplitFrom(_, _, _)
SplitFrom(s, sep, cur) ==
  IF s = <<>> THEN << cur >>
  ELSE IF Head(s) = sep THEN << cur >> \o SplitFrom(Tail(s), sep, <<>>)
  ELSE SplitFrom(Tail(s), sep, Append(cur, Head(s)))

split(s, sep) == SplitFrom(s, sep, <<>>)

\* str::split_whitespace(): the non-empty runs of non-whitespace characters.
RECURSIVE SplitWsFrom(_, _)
SplitWsFrom(s, cur) ==
  IF s = <<>> THEN (IF cur = <<>> THEN <<>> ELSE << cur >>)
  ELSE IF is_whitespace(Head(s))
       THEN (IF cur = <<>> THEN <<>> ELSE << cur >>) \o SplitWsFrom(Tail(s), <<>>)
       ELSE SplitWsFrom(Tail(s), Append(cur, Head(s)))

split_whitespace(s) == SplitWsFrom(s, <<>>)

\* Largest value of a u16 (type of halfmove_clock and fullmove_number).
U16Max == 65535

\* <u16 as FromStr>::from_str, as Option<u16>: an optional leading "+",
\* then at least one ASCII digit, the value accumulated with checked
\* arithmetic; anything else (empty, sign only, other character, value
\* above u16::MAX) is an error, here None.
RECURSIVE ParseDigits(_, _)
ParseDigits(s, acc) ==
  IF s = <<>> THEN << acc >>
  ELSE IF ~is_ascii_digit(Head(s)) THEN <<>>
  ELSE LET v == acc * 10 + to_digit(Head(s))
       IN IF v > U16Max THEN <<>> ELSE ParseDigits(Tail(s), v)

parse_u16(s) ==
  IF s = <<>> THEN <<>>
  ELSE IF Head(s) = "+" THEN (IF Len(s) = 1 THEN <<>> ELSE ParseDigits(Tail(s), 0))
  ELSE ParseDigits(s, 0)

\* Option::unwrap_or
unwrap_or(opt, default) == IF opt = <<>> THEN default ELSE opt[1]

\* ------------------------------------------------------------------------
\* Bitboards and small unsigned integers
\* ------------------------------------------------------------------------

\* The squares (bit positions) of a Bitboard.
Squares == 0..63

\* The Bitboard written as 16 hexadecimal digits, most significant first
\* (the literals of ChessEngine::new).
Hex64(d) == { sq \in Squares : (d[16 - (sq \div 4)] \div (2 ^ (sq % 4))) % 2 = 1 }

\* u32::count_ones of a Bitboard
count_ones(bb) == Cardinality(bb)

\* `1u64 << square`, as Option<Bitboard>: None is the panic "attempt to
\* shift left with overflow" of a build with overflow checks; a build
\* without them masks the shift amount to 6 bits.
shl_one(square, oc) ==
  IF square < 64 THEN << {square} >>
  ELSE IF oc THEN <<>>
  ELSE << {square % 64} >>

\* u8 subtraction, as Option<u8> (None: panic on overflow).
sub_u8(a, b, oc) ==
  IF a >= b THEN << a - b >> ELSE IF oc THEN <<>> ELSE << (a - b + 256) % 256 >>

\* u8 multiplication, as Option<u8>.
mul_u8(a, b, oc) ==
  IF a * b <= 255 THEN << a * b >> ELSE IF oc THEN <<>> ELSE << (a * b) % 256 >>

\* u8 addition, as Option<u8>.
add_u8(a, b, oc) ==
  IF a + b <= 255 THEN << a + b >> ELSE IF oc THEN <<>> ELSE << (a + b) % 256 >>

\* Bitwise or of two u8 values.
RECURSIVE BitOr(_, _)
BitOr(a, b) ==
  IF a = 0 THEN b
  ELSE IF b = 0 THEN a
  ELSE (IF a % 2 = 1 \/ b % 2 = 1 THEN 1 ELSE 0) + 2 * BitOr(a \div 2, b \div 2)

\* ------------------------------------------------------------------------
\* The engine as a value: a record with the fields of struct ChessEngine
\* ------------------------------------------------------------------------

\* The twelve piece bit-set fields, white first.
WhiteFields ==
  {"white_pawns", "white_knights", "white_bishops", "white_rooks", "white_queens", "white_king"}

BlackFields ==
  {"black_pawns", "black_knights", "black_bishops", "black_rooks", "black_queens", "black_king"}

BitboardFields == WhiteFields \cup BlackFields

\* ChessEngine::new
new ==
  [ white_pawns   |-> Hex64(<<0,0,0,0, 0,0,0,0, 0,0,0,0, 15,15,0,0>>),
    white_knights |-> Hex64(<<0,0,0,0, 0,0,0,0, 0,0,0,0, 0,0,4,2>>),
    white_bishops |-> Hex64(<<0,0,0,0, 0,0,0,0, 0,0,0,0, 0,0,2,4>>),
    white_rooks   |-> Hex64(<<0,0,0,0, 0,0,0,0, 0,0,0,0, 0,0,8,1>>),
    white_queens  |-> Hex64(<<0,0,0,0, 0,0,0,0, 0,0,0,0, 0,0,0,8>>),
    white_king    |-> Hex64(<<0,0,0,0, 0,0,0,0, 0,0,0,0, 0,0,1,0>>),
    black_pawns   |-> Hex64(<<0,0,15,15, 0,0,0,0, 0,0,0,0, 0,0,0,0>>),
    black_knights |-> Hex64(<<4,2,0,0, 0,0,0,0, 0,0,0,0, 0,0,0,0>>),
    black_bishops |-> Hex64(<<2,4,0,0, 0,0,0,0, 0,0,0,0, 0,0,0,0>>),
    black_rooks   |-> Hex64(<<8,1,0,0, 0,0,0,0, 0,0,0,0, 0,0,0,0>>),
    black_queens  |-> Hex64(<<0,8,0,0, 0,0,0,0, 0,0,0,0, 0,0,0,0>>),
    black_king    |-> Hex64(<<1,0,0,0, 0,0,0,0, 0,0,0,0, 0,0,0,0>>),
    side_to_move      |-> "White",
    castling_rights   |-> 15,
    en_passant_square |-> <<>>,
    halfmove_clock    |-> 0,
    fullmove_number   |-> 1,
    position_cache    |-> {},
    nodes_searched    |-> 0 ]

\* Results of the private methods returning Result<(), JsValue>: the engine
\* as the method leaves it, and how the method ended.
Ok(e) == [self |-> e, kind |-> "Ok", msg |-> ""]

Err(e, m) == [self |-> e, kind |-> "Err", msg |-> m]

Panic(e) == [self |-> e, kind |-> "Panic", msg |-> ""]

\* clear_position with the white bit-sets forgotten.
clear_position_black_only(e) ==
  [f \in DOMAIN e |-> IF f \in BlackFields THEN {} ELSE e[f]]

\* ChessEngine::clear_position
clear_position(e) ==
  [f \in DOMAIN e |-> IF f \in BitboardFields THEN {} ELSE e[f]]

\* The field a piece letter selects in parse_board_position's match
\* (None: the `_` arm).
PieceField(ch) ==
  CASE ch = "P" -> << "white_pawns" >>
    [] ch = "N" -> << "white_knights" >>
    [] ch = "B" -> << "white_bishops" >>
    [] ch = "R" -> << "white_rooks" >>
    [] ch = "Q" -> << "white_queens" >>
    [] ch = "K" -> << "white_king" >>
    [] ch = "p" -> << "black_pawns" >>
    [] ch = "n" -> << "black_knights" >>
    [] ch = "b" -> << "black_bishops" >>
    [] ch = "r" -> << "black_rooks" >>
    [] ch = "q" -> << "black_queens" >>
    [] ch = "k" -> << "black_king" >>
    [] OTHER -> <<>>

\* The inner loop of parse_board_position: the characters of one rank.
RECURSIVE ParseRank(_, _, _, _, _)
ParseRank(e, chars, rank_idx, file_idx, oc) ==
  IF chars = <<>> THEN Ok(e)
  ELSE LET ch == Head(chars) IN
    IF is_ascii_digit(ch)
    THEN ParseRank(e, Tail(chars), rank_idx, file_idx + to_digit(ch), oc)
    ELSE LET square == (7 - rank_idx) * 8 + file_idx
             bit == shl_one(square, oc)
             field == PieceField(ch)
         IN IF bit = <<>> THEN Panic(e)
            ELSE IF field = <<>> THEN Err(e, "Invalid piece character")
            ELSE ParseRank([e EXCEPT ![field[1]] = @ \cup bit[1]],
                           Tail(chars), rank_idx, file_idx + 1, oc)

\* The outer loop of parse_board_position: ranks rank_idx.. of the field.
RECURSIVE ParseRanks(_, _, _, _)
ParseRanks(e, ranks, rank_idx, oc) ==
  IF rank_idx >= Len(ranks) THEN Ok(e)
  ELSE LET r == ParseRank(e, ranks[rank_idx + 1], rank_idx, 0, oc)
       IN IF r.kind # "Ok" THEN r ELSE ParseRanks(r.self, ranks, rank_idx + 1, oc)

\* ChessEngine::parse_board_position
parse_board_position(e, board_str, oc) ==
  LET ranks == split(board_str, "/")
  IN IF Len(ranks) # 8 THEN Err(e, "Invalid board format")
     ELSE ParseRanks(e, ranks, 0, oc)

\* The bit a castling letter selects in parse_castling_rights' match.
CastlingBit(ch) ==
  CASE ch = "K" -> << 1 >>
    [] ch = "Q" -> << 2 >>
    [] ch = "k" -> << 4 >>
    [] ch = "q" -> << 8 >>
    [] OTHER -> <<>>

\* The loop of parse_castling_rights.
RECURSIVE ParseCastling(_, _)
ParseCastling(e, chars) ==
  IF chars = <<>> THEN Ok(e)
  ELSE LET b == CastlingBit(Head(chars))
       IN IF b = <<>> THEN Err(e, "Invalid castling rights")
          ELSE ParseCastling([e EXCEPT !.castling_rights = BitOr(@, b[1])], Tail(chars))

\* ChessEngine::parse_castling_rights
parse_castling_rights(e, castling_str) ==
  LET e0 == [e EXCEPT !.castling_rights = 0]
  IN IF castling_str # << "-" >> THEN ParseCastling(e0, castling_str) ELSE Ok(e0)

\* ChessEngine::parse_en_passant
parse_en_passant(e, ep_str, oc) ==
  IF ep_str = << "-" >> THEN Ok([e EXCEPT !.en_passant_square = <<>>])
  ELSE IF ByteLen(ep_str) = 2
  THEN LET file == sub_u8(AsU8(ep_str[1]), 97, oc)
       IN IF file = <<>> THEN Panic(e)
          ELSE IF Len(ep_str) < 2 THEN Panic(e)
          ELSE LET rank == sub_u8(AsU8(ep_str[2]), 49, oc)
               IN IF rank = <<>> THEN Panic(e)
                  ELSE LET prod == mul_u8(rank[1], 8, oc)
                       IN IF prod = <<>> THEN Panic(e)
                          ELSE LET sum == add_u8(prod[1], file[1], oc)
                               IN IF sum = <<>> THEN Panic(e)
                                  ELSE Ok([e EXCEPT !.en_passant_square = << sum[1] >>])
  ELSE Err(e, "Invalid en passant square")

\* The clock fields of load_fen (lines 166-172).
ParseClocks(e, parts) ==
  LET e1 == IF Len(parts) >= 5
            THEN [e EXCEPT !.halfmove_clock = unwrap_or(parse_u16(parts[5]), 0)]
            ELSE e
  IN IF Len(parts) >= 6
     THEN [e1 EXCEPT !.fullmove_number = unwrap_or(parse_u16(parts[6]), 1)]
     ELSE e1

\* ChessEngine::load_fen
load_fen(e, fen, oc) ==
  LET e0 == clear_position(e)
      parts == split_whitespace(fen)
  IN IF Len(parts) < 4 THEN Err(e0, "Invalid FEN format")
     ELSE LET r1 == parse_board_position(e0, parts[1], oc)
          IN IF r1.kind # "Ok" THEN r1
             ELSE IF parts[2] \notin { << "w" >>, << "b" >> }
                  THEN Err(r1.self, "Invalid side to move")
             ELSE LET e2 == [r1.self EXCEPT !.side_to_move =
                                IF parts[2] = << "w" >> THEN "White" ELSE "Black"]
                      r3 == parse_castling_rights(e2, parts[3])
                  IN IF r3.kind # "Ok" THEN r3
                     ELSE LET r4 == parse_en_passant(r3.self, parts[4], oc)
                          IN IF r4.kind # "Ok" THEN r4
                             ELSE Ok(ParseClocks(r4.self, parts))

\* ChessEngine::generate_legal_moves (a placeholder in the source)
generate_legal_moves(e) == <<>>

\* evaluate_position without the change of perspective for Black.
evaluate_position_white_view(e) ==
  LET score == (count_ones(e.white_pawns) * 1 + count_ones(e.white_knights) * 3
                + count_ones(e.white_bishops) * 3 + count_ones(e.white_rooks) * 5
                + count_ones(e.white_queens) * 9)
               - (count_ones(e.black_pawns) * 1 + count_ones(e.black_knights) * 3
                  + count_ones(e.black_bishops) * 3 + count_ones(e.black_rooks) * 5
                  + count_ones(e.black_queens) * 9)
  IN score

\* ChessEngine::evaluate_position
evaluate_position(e) ==
  LET s0 == 0
      s1 == s0 + count_ones(e.white_pawns) * 1
      s2 == s1 + count_ones(e.white_knights) * 3
      s3 == s2 + count_ones(e.white_bishops) * 3
      s4 == s3 + count_ones(e.white_rooks) * 5
      s5 == s4 + count_ones(e.white_queens) * 9
      s6 == s5 - count_ones(e.black_pawns) * 1
      s7 == s6 - count_ones(e.black_knights) * 3
      s8 == s7 - count_ones(e.black_bishops) * 3
      s9 == s8 - count_ones(e.black_rooks) * 5
      score == s9 - count_ones(e.black_queens) * 9
  IN IF e.side_to_move = "White" THEN score ELSE -score

\* minimax_search that makes a move (here: passes the turn) and returns
\* without undoing it.
minimax_search_no_undo(e, depth, alpha, beta, maximizing) ==
  IF depth = 0 THEN [self |-> e, value |-> evaluate_position(e)]
  ELSE LET e1 == [e EXCEPT !.nodes_searched = @ + 1,
                           !.side_to_move = IF @ = "White" THEN "Black" ELSE "White"]
       IN [self |-> e1, value |-> evaluate_position(e1)]

\* ChessEngine::minimax_search (a placeholder in the source: no move is
\* made or undone); the engine as the call leaves it, and the value.
minimax_search(e, depth, alpha, beta, maximizing) ==
  IF depth = 0 THEN [self |-> e, value |-> evaluate_position(e)]
  ELSE LET e1 == [e EXCEPT !.nodes_searched = @ + 1]
       IN [self |-> e1, value |-> evaluate_position(e1)]

\* `(js_sys::Date::now() as u32) - start_time`: Date.now() is the number of
\* milliseconds since 1970, above u32::MAX for every date after February
\* 1970, and a float-to-integer cast saturates: both readings are u32::MAX.
elapsed_time == 0

\* ChessEngine::analyze_position; the engine as the call leaves it, and the
\* serialized AnalysisResult.
analyze_position(e, depth, time_limit_ms) ==
  LET e0 == [e EXCEPT !.nodes_searched = 0]
      m == minimax_search(e0, depth, "NEG_INFINITY", "INFINITY", TRUE)
  IN [ self |-> m.self,
       value |-> [ evaluation |-> m.value,
                   best_move |-> <<>>,
                   principal_variation |-> <<>>,
                   nodes_searched |-> m.self.nodes_searched,
                   search_depth |-> depth,
                   time_ms |-> elapsed_time ] ]

\* ChessEngine::generate_moves; the engine as the call leaves it, and the
\* serialized move list.
generate_moves(e) ==
  LET e1 == [e EXCEPT !.nodes_searched = @ + 1]
  IN [self |-> e1, value |-> generate_legal_moves(e1)]

\* ChessEngine::position_to_fen (a placeholder in the source: the literal
\* "rnbqkbnr/pppppppp/8/8/8/8/PPPPPPPP/RNBQKBNR w KQkq - 0 1")
position_to_fen(e) ==
  << "r","n","b","q","k","b","n","r","/","p","p","p","p","p","p","p","p","/",
     "8","/","8","/","8","/","8","/",
     "P","P","P","P","P","P","P","P","/","R","N","B","Q","K","B","N","R",
     " ","w"," ","K","Q","k","q"," ","-"," ","0"," ","1" >>

\* ChessEngine::get_fen
get_fen(e) == position_to_fen(e)

\* ChessEngine::get_stats (the JSON object, as a record)
get_stats(e) ==
  [ nodes_searched |-> e.nodes_searched,
    cache_size |-> Cardinality(e.position_cache),
    side_to_move |-> IF e.side_to_move = "White" THEN "white" ELSE "black" ]

\* ------------------------------------------------------------------------
\* Inputs
\* ------------------------------------------------------------------------

\* The pieces joined by a separator text.
RECURSIVE Join(_, _)
Join(pieces, sep) ==
  IF pieces = <<>> THEN <<>>
  ELSE IF Len(pieces) = 1 THEN pieces[1]
  ELSE pieces[1] \o sep \o Join(Tail(pieces), sep)

\* A board field from its eight (or other number of) ranks.
Board(ranks) == Join(ranks, << "/" >>)

\* A FEN text from its fields, single spaces between them.
Fen(fields) == Join(fields, << " " >>)

E8 == << "8" >>

BlackKingRank == << "4", "k", "3" >>

WhiteKingRank == << "4", "K", "3" >>

WhitePawnRank == << "4", "P", "3" >>

\* "4k3/8/8/8/4P3/8/8/4K3"
PawnEnding == Board(<< BlackKingRank, E8, E8, E8, WhitePawnRank, E8, E8, WhiteKingRank >>)

\* "r3k2r/8/8/8/8/8/8/R2QK2R"
RookPosition ==
  Board(<< << "r", "3", "k", "2", "r" >>, E8, E8, E8, E8, E8, E8,
           << "R", "2", "Q", "K", "2", "R" >> >>)

\* "8/8/8/8/8/8/8/8"
EmptyBoard == Board(<< E8, E8, E8, E8, E8, E8, E8, E8 >>)

\* Board fields with one rank of PawnEnding's rank 5 (index 3) replaced.
WithRank5(rank) ==
  Board(<< BlackKingRank, E8, E8, rank, E8, E8, E8, WhiteKingRank >>)

\* "pppppppp/8P/8/8/8/8/8/4K3": rank 7 is one file too long.
LongRank7 ==
  Board(<< << "p", "p", "p", "p", "p", "p", "p", "p" >>, << "8", "P" >>,
           E8, E8, E8, E8, E8, WhiteKingRank >>)

\* "8P/8/8/8/8/8/8/8": rank 8 is one file too long.
LongRank8 == Board(<< << "8", "P" >>, E8, E8, E8, E8, E8, E8, E8 >>)

W == << "w" >>

B == << "b" >>

\* The initial-position FEN text of the specification.
InitialFen ==
  << "r","n","b","q","k","b","n","r","/","p","p","p","p","p","p","p","p","/",
     "8","/","8","/","8","/","8","/",
     "P","P","P","P","P","P","P","P","/","R","N","B","Q","K","B","N","R",
     " ","w"," ","K","Q","k","q"," ","-"," ","0"," ","1" >>

Dash == << "-" >>

\* PawnEnding, black to move, no castling, the given en-passant field,
\* clocks 3 and 4.
WithEnPassant(ep) == Fen(<< PawnEnding, B, Dash, ep, << "3" >>, << "4" >> >>)

\* FEN texts that the specification accepts.
ValidFens ==
  { InitialFen,
    Fen(<< PawnEnding, W, Dash, Dash >>),
    Fen(<< PawnEnding, B, Dash, << "e", "3" >>, << "5" >>, << "7" >> >>),
    Fen(<< RookPosition, B, << "K", "q" >>, Dash, << "x" >>, << "y" >> >>),
    Fen(<< RookPosition, W, << "K", "Q", "k", "q" >>, Dash, << "1", "2" >> >>),
    Fen(<< EmptyBoard, W, Dash, Dash, << "7", "0", "0", "0", "0" >>, << "+", "3" >> >>),
    << " ", " " >> \o PawnEnding \o << " ", "\t" >> \o B \o << " ", " ", "-", " ", "h", "8", " " >>
       \o << "9", " ", "9", " ", "e", "x", "t", "r", "a" >>,
    WithEnPassant(<< "a", "1" >>) }

\* FEN texts that the specification rejects.
InvalidFens ==
  { <<>>,
    Fen(<< PawnEnding, W, Dash >>),
    Fen(<< Board(<< E8, E8, E8, E8, E8, E8, E8 >>), W, Dash, Dash, << "0" >>, << "1" >> >>),
    Fen(<< WithRank5(<< "3", "x", "4" >>), W, Dash, Dash, << "0" >>, << "1" >> >>),
    Fen(<< WithRank5(<< "7" >>), W, Dash, Dash, << "0" >>, << "1" >> >>),
    Fen(<< WithRank5(<< "9" >>), W, Dash, Dash, << "0" >>, << "1" >> >>),
    Fen(<< LongRank7, W, Dash, Dash, << "0" >>, << "1" >> >>),
    Fen(<< LongRank8, W, Dash, Dash, << "0" >>, << "1" >> >>),
    Fen(<< PawnEnding, << "x" >>, Dash, Dash, << "0" >>, << "1" >> >>),
    Fen(<< PawnEnding, B, << "K", "X" >>, Dash, << "0" >>, << "1" >> >>),
    WithEnPassant(<< "e" >>),
    WithEnPassant(<< "e", "3", "3" >>),
    WithEnPassant(<< "z", "9" >>),
    WithEnPassant(<< "i", "3" >>),
    WithEnPassant(<< "a", "0" >>),
    WithEnPassant(<< "E_ACUTE" >>) }

\* The texts passed to load_fen.
FenInputs == ValidFens \cup InvalidFens

\* The time limits passed to analyze_position.
TimeLimits == 0..MaxTimeLimit

\* ------------------------------------------------------------------------
\* State
\* ------------------------------------------------------------------------

VARIABLES
  white_pawns, white_knights, white_bishops, white_rooks, white_queens, white_king,
  black_pawns, black_knights, black_bishops, black_rooks, black_queens, black_king,
  side_to_move, castling_rights, en_passant_square, halfmove_clock, fullmove_number,
  position_cache, nodes_searched,
  overflow_checks,  \* the build: TRUE iff arithmetic overflow panics
  panicked,         \* TRUE once a call has panicked (the instance has trapped)
  ret,              \* the last call: [op, arg, result]
  decoded           \* Some(BoardState left by the last load_fen) if it returned Ok

vars ==
  << white_pawns, white_knights, white_bishops, white_rooks, white_queens, white_king,
     black_pawns, black_knights, black_bishops, black_rooks, black_queens, black_king,
     side_to_move, castling_rights, en_passant_square, halfmove_clock, fullmove_number,
     position_cache, nodes_searched, overflow_checks, panicked, ret, decoded >>

\* The engine of the current state, as a record.
Self ==
  [ white_pawns |-> white_pawns, white_knights |-> white_knights,
    white_bishops |-> white_bishops, white_rooks |-> white_rooks,
    white_queens |-> white_queens, white_king |-> white_king,
    black_pawns |-> black_pawns, black_knights |-> black_knights,
    black_bishops |-> black_bishops, black_rooks |-> black_rooks,
    black_queens |-> black_queens, black_king |-> black_king,
    side_to_move |-> side_to_move, castling_rights |-> castling_rights,
    en_passant_square |-> en_passant_square, halfmove_clock |-> halfmove_clock,
    fullmove_number |-> fullmove_number, position_cache |-> position_cache,
    nodes_searched |-> nodes_searched ]

\* The engine of the next state is e.
SetSelf(e) ==
  /\ white_pawns' = e.white_pawns /\ white_knights' = e.white_knights
  /\ white_bishops' = e.white_bishops /\ white_rooks' = e.white_rooks
  /\ white_queens' = e.white_queens /\ white_king' = e.white_king
  /\ black_pawns' = e.black_pawns /\ black_knights' = e.black_knights
  /\ black_bishops' = e.black_bishops /\ black_rooks' = e.black_rooks
  /\ black_queens' = e.black_queens /\ black_king' = e.black_king
  /\ side_to_move' = e.side_to_move /\ castling_rights' = e.castling_rights
  /\ en_passant_square' = e.en_passant_square /\ halfmove_clock' = e.halfmove_clock
  /\ fullmove_number' = e.fullmove_number /\ position_cache' = e.position_cache
  /\ nodes_searched' = e.nodes_searched

\* The engine of the current state is e.
IsSelf(e) ==
  /\ white_pawns = e.white_pawns /\ white_knights = e.white_knights
  /\ white_bishops = e.white_bishops /\ white_rooks = e.white_rooks
  /\ white_queens = e.white_queens /\ white_king = e.white_king
  /\ black_pawns = e.black_pawns /\ black_knights = e.black_knights
  /\ black_bishops = e.black_bishops /\ black_rooks = e.black_rooks
  /\ black_queens = e.black_queens /\ black_king = e.black_king
  /\ side_to_move = e.side_to_move /\ castling_rights = e.castling_rights
  /\ en_passant_square = e.en_passant_square /\ halfmove_clock = e.halfmove_clock
  /\ fullmove_number = e.fullmove_number /\ position_cache = e.position_cache
  /\ nodes_searched = e.nodes_searched

\* The BoardState part of an engine: every field but the node counter and
\* the cache.
BoardStateFields ==
  BitboardFields \cup
  {"side_to_move", "castling_rights", "en_passant_square", "halfmove_clock", "fullmove_number"}

BoardState(e) == [f \in BoardStateFields |-> e[f]]

\* ------------------------------------------------------------------------
\* Operations
\* ------------------------------------------------------------------------

Init ==
  /\ IsSelf(new)
  /\ overflow_checks \in BOOLEAN
  /\ panicked = FALSE
  /\ ret = [op |-> "new", arg |-> <<>>, result |-> <<>>]
  /\ decoded = <<>>

\* load_fen(fen)
LoadFen(fen) ==
  /\ ~panicked
  /\ \E r \in { load_fen(Self, fen, overflow_checks) } :
        /\ SetSelf(r.self)
        /\ panicked' = (r.kind = "Panic")
        /\ ret' = [op |-> "load_fen", arg |-> fen,
                   result |-> IF r.kind = "Ok" THEN "Ok"
                              ELSE IF r.kind = "Err" THEN r.msg ELSE "panic"]
        /\ decoded' = IF r.kind = "Ok" THEN << BoardState(r.self) >> ELSE <<>>
  /\ UNCHANGED overflow_checks

\* generate_moves()
GenerateMoves ==
  /\ ~panicked
  /\ nodes_searched < MaxNodes
  /\ \E r \in { generate_moves(Self) } :
        /\ SetSelf(r.self)
        /\ ret' = [op |-> "generate_moves", arg |-> <<>>, result |-> r.value]
  /\ UNCHANGED << overflow_checks, panicked, decoded >>

\* analyze_position(depth, time_limit_ms)
AnalyzePosition(depth, time_limit_ms) ==
  /\ ~panicked
  /\ \E r \in { analyze_position(Self, depth, time_limit_ms) } :
        /\ SetSelf(r.self)
        /\ ret' = [op |-> "analyze_position", arg |-> << depth, time_limit_ms >>,
                   result |-> r.value]
  /\ UNCHANGED << overflow_checks, panicked, decoded >>

\* get_fen()
GetFen ==
  /\ ~panicked
  /\ ret' = [op |-> "get_fen", arg |-> <<>>, result |-> get_fen(Self)]
  /\ SetSelf(Self)
  /\ UNCHANGED << overflow_checks, panicked, decoded >>

\* get_stats()
GetStats ==
  /\ ~panicked
  /\ ret' = [op |-> "get_stats", arg |-> <<>>, result |-> get_stats(Self)]
  /\ SetSelf(Self)
  /\ UNCHANGED << overflow_checks, panicked, decoded >>

Next ==
  \/ \E fen \in FenInputs : LoadFen(fen)
  \/ GenerateMoves
  \/ \E depth \in 0..MaxDepth, time_limit_ms \in TimeLimits :
       AnalyzePosition(depth, time_limit_ms)
  \/ GetFen
  \/ GetStats

Spec == Init /\ [][Next]_vars

\* ------------------------------------------------------------------------
\* Properties
\* ------------------------------------------------------------------------

\* The BoardState of the current state.
CurrentBoard == BoardState(Self)

\* The fields of the text passed to the last load_fen.
LastParts == split_whitespace(ret.arg)

\* The last call was load_fen and it returned an error value.
LoadRejected ==
  ret.op = "load_fen" /\ ret.result \notin {"Ok", "panic"}

\* C1: whenever load_fen returns an error, every BoardState field (the
\* twelve bit-sets, side to move, castling rights, en-passant target, both
\* clocks) has the value it had before the call.
C1_AllOrNothing ==
  [][LoadRejected' => CurrentBoard' = CurrentBoard]_vars

\* C2: loading an accepted FEN, reading get_fen and loading that output
\* again is accepted and yields the BoardState of the first load.
C2_RoundTrip ==
  [][ ( /\ decoded # <<>>
        /\ decoded[1] = CurrentBoard
        /\ ret.op = "get_fen"
        /\ ret'.op = "load_fen"
        /\ ret'.arg = ret.result )
      => (ret'.result = "Ok" /\ CurrentBoard' = decoded[1]) ]_vars

\* C3: in every reachable state no square is set in more than one of the
\* twelve piece bit-sets.
C3_Disjoint ==
  \A f \in BitboardFields, g \in BitboardFields :
    f # g => Self[f] \cap Self[g] = {}

\* The number of files a rank text describes: its digits' values plus the
\* number of its other characters.
RECURSIVE RankFiles(_)
RankFiles(rank) ==
  IF rank = <<>> THEN 0
  ELSE (IF is_ascii_digit(Head(rank)) THEN to_digit(Head(rank)) ELSE 1)
       + RankFiles(Tail(rank))

\* The text has the four mandatory fields and some rank of its board field
\* does not describe exactly 8 files.
HasBadRank(fen) ==
  LET parts == split_whitespace(fen)
  IN /\ Len(parts) >= 4
     /\ LET ranks == split(parts[1], "/")
        IN \E i \in 1..Len(ranks) : RankFiles(ranks[i]) # 8

\* C4: load_fen rejects with a board error every FEN with a rank that does
\* not sum to exactly 8 files.
C4_RankSum ==
  (ret.op = "load_fen" /\ HasBadRank(ret.arg))
    => ret.result \in {"Invalid board format", "Invalid piece character"}

\* C5: when load_fen accepts a FEN whose half-move field is absent or
\* unparsable the half-move clock is 0, and when the full-move field is
\* absent or unparsable the full-move number is 1, whatever the state before.
C5_ClockDefaults ==
  (ret.op = "load_fen" /\ ret.result = "Ok")
    => /\ (Len(LastParts) < 5 \/ parse_u16(LastParts[5]) = <<>>) => halfmove_clock = 0
       /\ (Len(LastParts) < 6 \/ parse_u16(LastParts[6]) = <<>>) => fullmove_number = 1

\* An en-passant field of the specification: "-" or a file letter a..h
\* followed by a rank digit 1..8.
ValidEnPassant(ep) ==
  \/ ep = << "-" >>
  \/ /\ Len(ep) = 2
     /\ CodePoint(ep[1]) \in 97..104
     /\ CodePoint(ep[2]) \in 49..56

\* The target such a field denotes: none, or rank * 8 + file.
EnPassantTarget(ep) ==
  IF ep = << "-" >> THEN <<>>
  ELSE << (CodePoint(ep[2]) - 49) * 8 + (CodePoint(ep[1]) - 97) >>

\* The board, side and castling fields of the text are accepted by the code
\* (so that load_fen gets to the en-passant field).
ReachesEnPassant(parts) ==
  /\ Len(parts) >= 4
  /\ parse_board_position(clear_position(new), parts[1], overflow_checks).kind = "Ok"
  /\ parts[2] \in { << "w" >>, << "b" >> }
  /\ parse_castling_rights(new, parts[3]).kind = "Ok"

\* C6: when load_fen gets to the en-passant field, a valid field is accepted
\* and stores its target square (none, or rank * 8 + file in 0..63), and any
\* other field makes load_fen return the en-passant error.
C6_EnPassant ==
  (ret.op = "load_fen" /\ ReachesEnPassant(LastParts))
    => IF ValidEnPassant(LastParts[4])
       THEN /\ ret.result = "Ok"
            /\ en_passant_square = EnPassantTarget(LastParts[4])
            /\ \A i \in 1..Len(en_passant_square) : en_passant_square[i] \in 0..63
       ELSE ret.result = "Invalid en passant square"

\* C7: generate_moves on the initial position returns exactly 20 moves.
C7_TwentyMoves ==
  (ret.op = "generate_moves" /\ CurrentBoard = BoardState(new))
    => Len(ret.result) = 20

\* The number of squares set in the given bit-sets, counted per bit-set.
RECURSIVE PieceCount(_)
PieceCount(fields) ==
  IF fields = {} THEN 0
  ELSE LET f == CHOOSE f \in fields : TRUE
       IN Cardinality(Self[f]) + PieceCount(fields \ {f})

\* C8: loading the initial-position FEN, from any state, is accepted and
\* gives 16 white and 16 black pieces, white to move, all four castling
\* rights, no en-passant target, and the bit-sets of ChessEngine::new.
C8_InitialPosition ==
  (ret.op = "load_fen" /\ ret.arg = InitialFen)
    => /\ ret.result = "Ok"
       /\ PieceCount(WhiteFields) = 16
       /\ PieceCount(BlackFields) = 16
       /\ side_to_move = "White"
       /\ castling_rights = 15
       /\ en_passant_square = <<>>
       /\ \A f \in BitboardFields : Self[f] = new[f]

\* The initial FEN was loaded into an engine that had been used before.
C8_Witness ==
  /\ ret.op = "load_fen" /\ ret.arg = InitialFen /\ ret.result = "Ok"
  /\ nodes_searched > 0

\* Material of one side with the weights of the specification.
Material(e, side) ==
  IF side = "White"
  THEN 1 * Cardinality(e.white_pawns) + 3 * Cardinality(e.white_knights)
       + 3 * Cardinality(e.white_bishops) + 5 * Cardinality(e.white_rooks)
       + 9 * Cardinality(e.white_queens) + 0 * Cardinality(e.white_king)
  ELSE 1 * Cardinality(e.black_pawns) + 3 * Cardinality(e.black_knights)
       + 3 * Cardinality(e.black_bishops) + 5 * Cardinality(e.black_rooks)
       + 9 * Cardinality(e.black_queens) + 0 * Cardinality(e.black_king)

\* White's material minus Black's, negated when Black is to move.
MoverScore(e) ==
  IF e.side_to_move = "White"
  THEN Material(e, "White") - Material(e, "Black")
  ELSE -(Material(e, "White") - Material(e, "Black"))

\* The engine with the other side to move.
FlipSide(e) ==
  [e EXCEPT !.side_to_move = IF @ = "White" THEN "Black" ELSE "White"]

\* C9: the evaluation is white material minus black material (pawn 1,
\* knight 3, bishop 3, rook 5, queen 9, king 0), negated when Black is to
\* move; the scores of two states differing only in the side to move are
\* negations of each other; the evaluation an analysis returns is that of
\* the state it was called in, and evaluating changes neither the
\* BoardState nor the cache.
C9_Evaluate ==
  /\ [](/\ evaluate_position(Self) = MoverScore(Self)
        /\ evaluate_position(FlipSide(Self)) = -evaluate_position(Self))
  /\ [][ret'.op = "analyze_position"
          => /\ ret'.result.evaluation = MoverScore(Self)
             /\ CurrentBoard' = CurrentBoard
             /\ position_cache' = position_cache]_vars

\* An analysis returned a non-zero score with Black to move.
C9_Witness ==
  /\ ret.op = "analyze_position"
  /\ side_to_move = "Black"
  /\ ret.result.evaluation < 0

\* C10: analyze_position leaves the twelve bit-sets, side to move, castling
\* rights, en-passant target and both clocks as they were before the call,
\* for every depth and time limit.
C10_AnalyzeRestores ==
  [][ret'.op = "analyze_position" => CurrentBoard' = CurrentBoard]_vars

\* A search of depth at least 1 returned on a loaded position other than
\* the initial one.
C10_Witness ==
  /\ ret.op = "analyze_position"
  /\ ret.arg[1] >= 1
  /\ decoded # <<>>
  /\ CurrentBoard # BoardState(new)

====
